---- MODULE Spec2Model ----
(***************************************************************************)
(* train_single_scale (src/train_single_scale.py): one scale of the        *)
(* multi-scale GAN training, as a state machine over the positions of the  *)
(* function body.  Tensors are records that carry their provenance (which  *)
(* call produced them, in which epoch and D-step, whether the token-group  *)
(* transform and the padding were applied) and, where the code computes    *)
(* with it, a one-pixel value.                                             *)
(***************************************************************************)
EXTENDS Integers, FiniteSets, Sequences, TLC

\* ------------------------------------------------------------------ bounds
MaxScale == 2          \* current_scale = len(generators) ranges over 0..MaxScale
MaxNiter == 2          \* opt.niter ranges over 0..MaxNiter
MaxDsteps == 2         \* opt.Dsteps ranges over 0..MaxDsteps
MaxGsteps == 2         \* opt.Gsteps ranges over 0..MaxGsteps
MaxVal == 1            \* one-pixel tensor values range over 0..MaxVal
MaxNoiseUpdate == 2    \* opt.noise_update ranges over 1..MaxNoiseUpdate
LRExtra == 2           \* the learning-rate runs train LRExtra epochs past the last milestone

\* ------------------------------------------------------- program constants
Milestone1 == 1600     \* milestones=[1600, 2500]
Milestone2 == 2500
LogEvery == 10         \* step % 10 == 0
RenderEvery == 500     \* epoch % 500 == 0

Milestones == {Milestone1, Milestone2}

VARIABLES
    opt,                    \* the configuration namespace (opt.noise_amp is mutable)
    current_scale,          \* len(generators)
    real,                   \* reals[current_scale]
    rec_replay,             \* what draw_concat(..., "rec", ...) returns for this chain
    input_from_prev_scale,  \* the argument, rebound at scale 0
    pc, epoch, j,           \* position in the body, loop indices
    z_opt, noise_, prev, z_prev, noise, fake, Z_opt, rec_loss,   \* locals
    optimizerD, optimizerG, \* [lr_exp, steps]: lr = initial lr * gamma^lr_exp
    schedulerD, schedulerG, \* [last_epoch]
    disk,                   \* [z_opt, networks, diag]: what was persisted
    ret,                    \* the returned triple
    hist                    \* history of the call (writes, per-epoch counts, fault position)

vars == <<opt, current_scale, real, rec_replay, input_from_prev_scale, pc, epoch, j,
          z_opt, noise_, prev, z_prev, noise, fake, Z_opt, rec_loss,
          optimizerD, optimizerG, schedulerD, schedulerG, disk, ret, hist>>

locals == <<z_opt, noise_, prev, z_prev, noise, fake, Z_opt, rec_loss>>
optim == <<optimizerD, optimizerG, schedulerD, schedulerG>>
args == <<current_scale, real, rec_replay>>

\* ----------------------------------------------------------------- tensors
Unbound == [kind |-> "unbound"]
IsBound(t) == t.kind # "unbound"

\* torch.zeros(1, nc, nzx, nzy)
Zeros == [kind |-> "zeros", tok |-> FALSE, pad |-> FALSE, val |-> 0]

\* nn.ZeroPad2d / nn.ReflectionPad2d applied to a tensor
Pad(t) == [t EXCEPT !.pad = TRUE]

\* generate_spatial_noise: a fresh draw, identified by the epoch that drew it
GenerateNoise(tag) == [kind |-> "randn", tok |-> FALSE, pad |-> FALSE, val |-> 0, draw |-> tag]

\* the tensor the caller passes as input_from_prev_scale
ArgIn == [kind |-> "arg", tok |-> FALSE, pad |-> FALSE, val |-> 0]

\* group_to_token(t, opt.token_list, token_group)
GroupToToken(t) == [t EXCEPT !.tok = TRUE]

\* interpolate(t, real.shape[-2:], mode="bilinear"): the result has real's
\* unpadded size
Interpolate(t) == [t EXCEPT !.pad = FALSE]

\* draw_concat(generators, noise_maps, reals, noise_amplitudes, in_s, mode, ...)
\* with an empty chain there is nothing to replay; "rec" is deterministic,
\* "rand" consumes randomness: the replay of D-step jj of epoch e is a draw of
\* its own
DrawConcat(in_s, mode, e, jj) ==
    IF current_scale = 0
    THEN [kind |-> "replay0", tok |-> FALSE, pad |-> TRUE, val |-> in_s.val, e |-> e, j |-> jj]
    ELSE IF mode = "rec"
         THEN [kind |-> "rec", tok |-> FALSE, pad |-> TRUE, val |-> rec_replay, e |-> e, j |-> jj]
         ELSE [kind |-> "rand", tok |-> FALSE, pad |-> TRUE, val |-> 0, e |-> e, j |-> jj]

Abs(x) == IF x < 0 THEN -x ELSE x

\* torch.sqrt(F.mse_loss(real, z_prev)) of one-pixel tensors
RMSE(r, z) == Abs(r - z.val)

update_noise_amplitude(zp, r, o) == o.noise_update * RMSE(r, zp)

\* G(noise.detach(), prev, temperature=1) with the generator's current weights
\* (the weights are identified by the number of optimizerG steps taken)
RunG(n, p) == [kind |-> "G", noise |-> n, prev |-> p, weights |-> optimizerG.steps]

\* opt.noise_amp * noise_ + prev   and   opt.noise_amp * z_opt + z_prev
Combine(amp, n, p) == [kind |-> "sum", amp |-> amp, n |-> n, p |-> p]

\* step = current_scale * opt.niter + epoch
step == current_scale * opt.niter + epoch

\* ---------------------------------------------------------------- the call
\* amp_writes, in_writes: writes of opt.noise_amp and of input_from_prev_scale;
\* d_epoch, g_epoch: optimizerD.step() calls and G iterations of this epoch;
\* fake_epoch, draws_epoch: fake-branch computations and noise_ draws of this epoch;
\* tok: whether the last fake branch applied group_to_token to prev;
\* d_pair, d_at: the (noise, prev) the last D iteration computed, and its (epoch, j);
\* g_in: the (noise, prev) the last G iteration ran G on;
\* fault_pc: where the call aborted
Hist0 == [amp_writes |-> 0, in_writes |-> 0,
          d_epoch |-> 0, g_epoch |-> 0, fake_epoch |-> 0, draws_epoch |-> 0,
          tok |-> FALSE, d_pair |-> <<Unbound, Unbound>>, d_at |-> <<-1, -1>>,
          g_in |-> <<Unbound, Unbound>>, fault_pc |-> "none"]

\* opt on entry; opt.noise_amp still holds what was there before the call
Configs ==
    [niter : 0..MaxNiter, Dsteps : 0..MaxDsteps, Gsteps : 0..MaxGsteps,
     alpha : {0, 1}, token_insert : -2..(MaxScale - 1),
     noise_update : 1..MaxNoiseUpdate, noise_amp : {0}]

\* the state on entry of train_single_scale
InitWith(C, S) ==
    /\ opt \in C
    /\ current_scale \in S
    /\ real \in 0..MaxVal
    /\ rec_replay \in (IF current_scale = 0 THEN {0} ELSE 0..MaxVal)
    /\ input_from_prev_scale = ArgIn
    /\ pc = "setup" /\ epoch = 0 /\ j = 0
    /\ z_opt = Unbound /\ noise_ = Unbound /\ prev = Unbound /\ z_prev = Unbound
    /\ noise = Unbound /\ fake = Unbound /\ Z_opt = Unbound /\ rec_loss = Unbound
    /\ optimizerD = Unbound /\ optimizerG = Unbound
    /\ schedulerD = Unbound /\ schedulerG = Unbound
    /\ disk = [z_opt |-> <<>>, networks |-> <<>>, diag |-> 0]
    /\ ret = <<>>
    /\ hist = Hist0

Init == InitWith(Configs, 0..MaxScale)

\* lines 72-113: optimizers, schedulers and the optimal noise map
Setup ==
    /\ pc = "setup"
    /\ optimizerD' = [kind |-> "adam", lr_exp |-> 0, steps |-> 0]
    /\ optimizerG' = [kind |-> "adam", lr_exp |-> 0, steps |-> 0]
    /\ schedulerD' = [kind |-> "multistep", last_epoch |-> 0]
    /\ schedulerG' = [kind |-> "multistep", last_epoch |-> 0]
    /\ z_opt' = IF current_scale = 0 THEN Pad(GenerateNoise("z_opt")) ELSE Pad(Zeros)
    /\ pc' = "epoch_head"
    /\ UNCHANGED <<opt, args, input_from_prev_scale, epoch, j, noise_, prev, z_prev,
                   noise, fake, Z_opt, rec_loss, disk, ret, hist>>

\* lines 116-121: the next epoch starts and draws its noise_
EpochHead ==
    /\ pc = "epoch_head" /\ epoch < opt.niter
    /\ noise_' = Pad(GenerateNoise(epoch))
    /\ j' = 0
    /\ hist' = [hist EXCEPT !.d_epoch = 0, !.g_epoch = 0, !.fake_epoch = 0,
                            !.draws_epoch = 1]
    /\ pc' = "d_loop"
    /\ UNCHANGED <<opt, args, input_from_prev_scale, epoch, z_opt, prev, z_prev,
                   noise, fake, Z_opt, rec_loss, optim, disk, ret>>

\* LoopExit, were the epoch loop to run range(opt.niter - 1)
LoopExit_Early ==
    /\ pc = "epoch_head" /\ epoch >= opt.niter - 1
    /\ pc' = "save_z"
    /\ UNCHANGED <<opt, args, input_from_prev_scale, epoch, j, locals, optim, disk, ret, hist>>

\* line 116: range(opt.niter) is exhausted
LoopExit ==
    /\ pc = "epoch_head" /\ epoch >= opt.niter
    /\ pc' = "save_z"
    /\ UNCHANGED <<opt, args, input_from_prev_scale, epoch, j, locals, optim, disk, ret, hist>>

\* lines 129-134: D.zero_grad(), the real branch and its backward pass
DReal ==
    /\ pc = "d_loop" /\ j < opt.Dsteps
    /\ pc' = "d_fake"
    /\ UNCHANGED <<opt, args, input_from_prev_scale, epoch, j, locals, optim, disk, ret, hist>>

\* lines 212-218: noise and fake from the prev just computed
FakeFrom(amp, p) ==
    /\ noise' = Combine(amp, noise_, p)
    /\ fake' = RunG(Combine(amp, noise_, p), p)

\* DFakeCoarsest, were the seed input bound after the padding (lines 142/143 swapped)
DFakeCoarsest_PadsSeed ==
    /\ pc = "d_fake" /\ j = 0 /\ epoch = 0 /\ current_scale = 0
    /\ input_from_prev_scale' = Pad(Zeros)
    /\ prev' = Pad(Zeros)
    /\ z_prev' = Pad(Zeros)
    /\ opt' = [opt EXCEPT !.noise_amp = 1]
    /\ FakeFrom(1, Pad(Zeros))
    /\ hist' = [hist EXCEPT !.amp_writes = @ + 1, !.in_writes = @ + 1,
                            !.fake_epoch = @ + 1, !.tok = FALSE,
                            !.d_pair = <<Combine(1, noise_, Pad(Zeros)), Pad(Zeros)>>,
                            !.d_at = <<epoch, j>>]
    /\ pc' = "d_update"
    /\ UNCHANGED <<args, epoch, j, z_opt, noise_, Z_opt, rec_loss, optim, disk, ret>>

\* lines 137-146: the first D-step of the first epoch at the coarsest scale
DFakeCoarsest ==
    /\ pc = "d_fake" /\ j = 0 /\ epoch = 0 /\ current_scale = 0
    /\ input_from_prev_scale' = Zeros
    /\ prev' = Pad(Zeros)
    /\ z_prev' = Pad(Zeros)
    /\ opt' = [opt EXCEPT !.noise_amp = 1]
    /\ FakeFrom(1, Pad(Zeros))
    /\ hist' = [hist EXCEPT !.amp_writes = @ + 1, !.in_writes = @ + 1,
                            !.fake_epoch = @ + 1, !.tok = FALSE,
                            !.d_pair = <<Combine(1, noise_, Pad(Zeros)), Pad(Zeros)>>,
                            !.d_at = <<epoch, j>>]
    /\ pc' = "d_update"
    /\ UNCHANGED <<args, epoch, j, z_opt, noise_, Z_opt, rec_loss, optim, disk, ret>>

\* lines 162-163, 182-183, 204-205: the seeding transform
Seeding(t) == IF current_scale = opt.token_insert + 1 THEN GroupToToken(t) ELSE t

\* lines 147-189: the first D-step of the first epoch at a finer scale
DFakeFirst ==
    /\ pc = "d_fake" /\ j = 0 /\ epoch = 0 /\ current_scale # 0
    /\ LET p  == Pad(Interpolate(Seeding(DrawConcat(input_from_prev_scale, "rand", epoch, j))))
           zi == Interpolate(Seeding(DrawConcat(input_from_prev_scale, "rec", epoch, j)))
           a  == update_noise_amplitude(zi, real, opt)
       IN /\ prev' = p
            /\ opt' = [opt EXCEPT !.noise_amp = a]
            /\ z_prev' = Pad(zi)
            /\ FakeFrom(a, p)
            /\ hist' = [hist EXCEPT !.amp_writes = @ + 1, !.fake_epoch = @ + 1,
                                    !.tok = p.tok,
                                    !.d_pair = <<Combine(a, noise_, p), p>>,
                                    !.d_at = <<epoch, j>>]
    /\ pc' = "d_update"
    /\ UNCHANGED <<args, input_from_prev_scale, epoch, j, z_opt, noise_, Z_opt, rec_loss,
                   optim, disk, ret>>

\* DFakeOther, were every D-step to recalibrate opt.noise_amp from its replay
DFakeOther_Recalibrates ==
    /\ pc = "d_fake" /\ ~(j = 0 /\ epoch = 0)
    /\ LET p == Pad(Interpolate(Seeding(DrawConcat(input_from_prev_scale, "rand", epoch, j))))
           a == update_noise_amplitude(p, real, opt)
       IN /\ prev' = p
            /\ opt' = [opt EXCEPT !.noise_amp = a]
            /\ FakeFrom(a, p)
            /\ hist' = [hist EXCEPT !.amp_writes = @ + 1, !.fake_epoch = @ + 1, !.tok = p.tok,
                                    !.d_pair = <<Combine(a, noise_, p), p>>,
                                    !.d_at = <<epoch, j>>]
    /\ pc' = "d_update"
    /\ UNCHANGED <<args, input_from_prev_scale, epoch, j, z_opt, noise_, z_prev, Z_opt,
                   rec_loss, optim, disk, ret>>

\* DFakeOther, were the later D-steps to reuse the fake branch of the epoch
DFakeOther_Reuses ==
    /\ pc = "d_fake" /\ ~(j = 0 /\ epoch = 0)
    /\ IF j = 0
       THEN LET p == Pad(Interpolate(Seeding(DrawConcat(input_from_prev_scale, "rand", epoch, j))))
            IN /\ prev' = p
                 /\ FakeFrom(opt.noise_amp, p)
                 /\ hist' = [hist EXCEPT !.fake_epoch = @ + 1, !.tok = p.tok,
                                         !.d_pair = <<Combine(opt.noise_amp, noise_, p), p>>,
                                         !.d_at = <<epoch, j>>]
       ELSE UNCHANGED <<prev, noise, fake, hist>>
    /\ pc' = "d_update"
    /\ UNCHANGED <<opt, args, input_from_prev_scale, epoch, j, z_opt, noise_, z_prev, Z_opt,
                   rec_loss, optim, disk, ret>>

\* lines 190-210: any other D-step
DFakeOther ==
    /\ pc = "d_fake" /\ ~(j = 0 /\ epoch = 0)
    /\ LET p == Pad(Interpolate(Seeding(DrawConcat(input_from_prev_scale, "rand", epoch, j))))
       IN /\ prev' = p
            /\ FakeFrom(opt.noise_amp, p)
            /\ hist' = [hist EXCEPT !.fake_epoch = @ + 1, !.tok = p.tok,
                                    !.d_pair = <<Combine(opt.noise_amp, noise_, p), p>>,
                                    !.d_at = <<epoch, j>>]
    /\ pc' = "d_update"
    /\ UNCHANGED <<opt, args, input_from_prev_scale, epoch, j, z_opt, noise_, z_prev, Z_opt,
                   rec_loss, optim, disk, ret>>

\* lines 220-244: D on the fake, gradient penalty, logging, optimizerD.step()
DUpdate ==
    /\ pc = "d_update"
    /\ optimizerD' = [optimizerD EXCEPT !.steps = @ + 1]
    /\ hist' = [hist EXCEPT !.d_epoch = @ + 1]
    /\ j' = j + 1
    /\ pc' = "d_loop"
    /\ UNCHANGED <<opt, args, input_from_prev_scale, epoch, locals, optimizerG,
                   schedulerD, schedulerG, disk, ret>>

\* DLoopExit, were the D loop to run range(opt.Dsteps - 1)
DLoopExit_OffByOne ==
    /\ pc = "d_loop" /\ j >= opt.Dsteps - 1
    /\ j' = 0
    /\ pc' = "g_loop"
    /\ UNCHANGED <<opt, args, input_from_prev_scale, epoch, locals, optim, disk, ret, hist>>

\* line 127 -> 251: range(opt.Dsteps) is exhausted, the G loop starts
DLoopExit ==
    /\ pc = "d_loop" /\ j >= opt.Dsteps
    /\ j' = 0
    /\ pc' = "g_loop"
    /\ UNCHANGED <<opt, args, input_from_prev_scale, epoch, locals, optim, disk, ret, hist>>

\* GAdv, were each G iteration to replay a prev of its own
GAdv_FreshPrev ==
    /\ pc = "g_loop" /\ j < opt.Gsteps
    /\ IsBound(noise) /\ IsBound(prev)
    /\ LET p == Pad(Interpolate(Seeding(DrawConcat(input_from_prev_scale, "rand", epoch, j))))
       IN /\ prev' = p
            /\ noise' = Combine(opt.noise_amp, noise_, p)
            /\ fake' = RunG(Combine(opt.noise_amp, noise_, p), p)
            /\ hist' = [hist EXCEPT !.g_in = <<Combine(opt.noise_amp, noise_, p), p>>,
                                    !.g_epoch = @ + 1]
    /\ pc' = "g_rec"
    /\ UNCHANGED <<opt, args, input_from_prev_scale, epoch, j, z_opt, noise_, z_prev,
                   Z_opt, rec_loss, optim, disk, ret>>

\* lines 252-261: G.zero_grad(), G on (noise, prev), the adversarial loss
GAdv ==
    /\ pc = "g_loop" /\ j < opt.Gsteps
    /\ IsBound(noise) /\ IsBound(prev)
    /\ fake' = RunG(noise, prev)
    /\ hist' = [hist EXCEPT !.g_in = <<noise, prev>>, !.g_epoch = @ + 1]
    /\ pc' = "g_rec"
    /\ UNCHANGED <<opt, args, input_from_prev_scale, epoch, j, z_opt, noise_, prev, z_prev,
                   noise, Z_opt, rec_loss, optim, disk, ret>>

\* GRec, were the combined Z_opt stored back into z_opt
GRec_OverwritesZopt ==
    /\ pc = "g_rec"
    /\ IF opt.alpha # 0
       THEN /\ Z_opt' = Combine(opt.noise_amp, z_opt, z_prev)
            /\ z_opt' = Combine(opt.noise_amp, z_opt, z_prev)
            /\ rec_loss' = [kind |-> "mse", alpha |-> opt.alpha]
       ELSE /\ Z_opt' = z_opt
            /\ z_opt' = z_opt
            /\ rec_loss' = [kind |-> "zero"]
    /\ pc' = "g_update"
    /\ UNCHANGED <<opt, args, input_from_prev_scale, epoch, j, noise_, prev, z_prev,
                   noise, fake, optim, disk, ret, hist>>

\* lines 262-278: the reconstruction loss
GRec ==
    /\ pc = "g_rec"
    /\ IF opt.alpha # 0
       THEN /\ Z_opt' = Combine(opt.noise_amp, z_opt, z_prev)
            /\ rec_loss' = [kind |-> "mse", alpha |-> opt.alpha]
       ELSE /\ Z_opt' = z_opt
            /\ rec_loss' = [kind |-> "zero"]
    /\ pc' = "g_update"
    /\ UNCHANGED <<opt, args, input_from_prev_scale, epoch, j, z_opt, noise_, prev, z_prev,
                   noise, fake, optim, disk, ret, hist>>

\* line 280: optimizerG.step()
GUpdate ==
    /\ pc = "g_update"
    /\ optimizerG' = [optimizerG EXCEPT !.steps = @ + 1]
    /\ j' = j + 1
    /\ pc' = "g_loop"
    /\ UNCHANGED <<opt, args, input_from_prev_scale, epoch, locals, optimizerD,
                   schedulerD, schedulerG, disk, ret, hist>>

\* line 251 -> 283: range(opt.Gsteps) is exhausted
GLoopExit ==
    /\ pc = "g_loop" /\ j >= opt.Gsteps
    /\ pc' = "log"
    /\ UNCHANGED <<opt, args, input_from_prev_scale, epoch, j, locals, optim, disk, ret, hist>>

LogDue == step % LogEvery = 0
RenderDue == epoch % RenderEvery = 0 \/ epoch = opt.niter - 1

\* lines 283-292: the per-epoch log (reads opt.noise_amp and rec_loss)
Log ==
    /\ pc = "log"
    /\ LogDue => IsBound(rec_loss)
    /\ pc' = "render"
    /\ UNCHANGED <<opt, args, input_from_prev_scale, epoch, j, locals, optim, disk, ret, hist>>

\* Render, were the rendering epochs to checkpoint z_opt as well
Render_Checkpoints ==
    /\ pc = "render"
    /\ RenderDue => (IsBound(fake) /\ IsBound(Z_opt) /\ IsBound(z_prev))
    /\ disk' = IF RenderDue THEN [disk EXCEPT !.diag = 1, !.z_opt = Append(@, z_opt)] ELSE disk
    /\ pc' = "sched"
    /\ UNCHANGED <<opt, args, input_from_prev_scale, epoch, j, locals, optim, ret, hist>>

\* lines 295-327: rendering (reads fake, Z_opt, z_prev), the real@scale.txt file
Render ==
    /\ pc = "render"
    /\ RenderDue => (IsBound(fake) /\ IsBound(Z_opt) /\ IsBound(z_prev))
    /\ disk' = IF RenderDue THEN [disk EXCEPT !.diag = 1] ELSE disk
    /\ pc' = "sched"
    /\ UNCHANGED <<opt, args, input_from_prev_scale, epoch, j, locals, optim, ret, hist>>

\* MultiStepLR.step(): last_epoch advances
MultiStep(sch) == [sch EXCEPT !.last_epoch = @ + 1]

\* MultiStepLR.get_lr() after the step: at a milestone the lr is multiplied by gamma
Decayed(o, sch) ==
    IF sch.last_epoch \in Milestones THEN [o EXCEPT !.lr_exp = @ + 1] ELSE o

\* line 330: schedulerD.step()
SchedulerStepD ==
    /\ pc = "sched"
    /\ schedulerD' = MultiStep(schedulerD)
    /\ optimizerD' = Decayed(optimizerD, MultiStep(schedulerD))
    /\ pc' = "sched_g"
    /\ UNCHANGED <<opt, args, input_from_prev_scale, epoch, j, locals, optimizerG,
                   schedulerG, disk, ret, hist>>

\* SchedulerStepG, were line 331 missing (only the D scheduler stepped)
SchedulerStepG_Skips ==
    /\ pc = "sched_g"
    /\ epoch' = epoch + 1
    /\ pc' = "epoch_head"
    /\ UNCHANGED <<opt, args, input_from_prev_scale, j, locals, optim, disk, ret, hist>>

\* line 331: schedulerG.step(); the epoch ends
SchedulerStepG ==
    /\ pc = "sched_g"
    /\ schedulerG' = MultiStep(schedulerG)
    /\ optimizerG' = Decayed(optimizerG, MultiStep(schedulerG))
    /\ epoch' = epoch + 1
    /\ pc' = "epoch_head"
    /\ UNCHANGED <<opt, args, input_from_prev_scale, j, locals, optimizerD,
                   schedulerD, disk, ret, hist>>

\* line 334: torch.save(z_opt, ...)
SaveZopt ==
    /\ pc = "save_z"
    /\ disk' = [disk EXCEPT !.z_opt = Append(@, z_opt)]
    /\ pc' = "save_net"
    /\ UNCHANGED <<opt, args, input_from_prev_scale, epoch, j, locals, optim, ret, hist>>

\* line 335: save_networks(G, D, z_opt, opt)
SaveNetworks ==
    /\ pc = "save_net"
    /\ disk' = [disk EXCEPT !.networks = Append(@, [G |-> optimizerG.steps,
                                                    D |-> optimizerD.steps,
                                                    z_opt |-> z_opt])]
    /\ pc' = "ret"
    /\ UNCHANGED <<opt, args, input_from_prev_scale, epoch, j, locals, optim, ret, hist>>

\* lines 336-337: return z_opt, input_from_prev_scale, G
Return ==
    /\ pc = "ret"
    /\ ret' = <<z_opt, input_from_prev_scale, [G |-> optimizerG.steps]>>
    /\ pc' = "done"
    /\ UNCHANGED <<opt, args, input_from_prev_scale, epoch, j, locals, optim, disk, hist>>

Running == pc \notin {"done", "aborted"}

\* a read of a local that no iteration has bound (NameError): the G loop after
\* an empty D loop, the log and the rendering after an empty G loop
NameErrorDue ==
    CASE pc = "g_loop" -> j < opt.Gsteps /\ ~(IsBound(noise) /\ IsBound(prev))
      [] pc = "log" -> LogDue /\ ~IsBound(rec_loss)
      [] pc = "render" -> RenderDue /\ ~(IsBound(fake) /\ IsBound(Z_opt) /\ IsBound(z_prev))
      [] OTHER -> FALSE

Abort ==
    /\ hist' = [hist EXCEPT !.fault_pc = pc]
    /\ pc' = "aborted"
    /\ UNCHANGED <<opt, args, input_from_prev_scale, epoch, j, locals, optim, disk, ret>>

NameError == NameErrorDue /\ Abort

\* any statement may fault (shape mismatch, device or I/O error); nothing in
\* the function catches it
Fault == Running /\ ~NameErrorDue /\ Abort

Step ==
    \/ Setup \/ EpochHead \/ LoopExit
    \/ DReal \/ DFakeCoarsest \/ DFakeFirst \/ DFakeOther \/ DUpdate \/ DLoopExit
    \/ GAdv \/ GRec \/ GUpdate \/ GLoopExit
    \/ Log \/ Render \/ SchedulerStepD \/ SchedulerStepG
    \/ SaveZopt \/ SaveNetworks \/ Return

Next == Step \/ NameError \/ Fault

Spec == Init /\ [][Next]_vars

\* the position of the call, also after it aborted
Pos == IF pc = "aborted" THEN hist.fault_pc ELSE pc

DPhase == {"d_loop", "d_fake", "d_update"}
GPhase == {"g_loop", "g_rec", "g_update"}
EpochTail == {"log", "render", "sched", "sched_g"}

\* ---- learning-rate runs: niter long enough to pass both milestones
LRConfigs ==
    [niter : {Milestone2 + LRExtra}, Dsteps : {0, 1}, Gsteps : {1},
     alpha : {1}, token_insert : {0}, noise_update : {1}, noise_amp : {0}]

InitLR == InitWith(LRConfigs, {0, 1})

SpecLR == InitLR /\ [][Next]_vars

\* ------------------------------------------------------------------ claims
FirstFakePending ==
    /\ epoch = 0
    /\ \/ Pos \in {"setup", "epoch_head"}
       \/ Pos \in {"d_loop", "d_fake"} /\ j = 0

\* C1: with niter >= 1 and Dsteps >= 1, opt.noise_amp is written exactly once,
\* by D-step 0 of epoch 0 (1 at scale 0, update_noise_amplitude of the rec
\* replay at finer scales), and every noise and every Z_opt, in every epoch,
\* was built from that value.
C1_NoiseAmpWrittenOnce ==
    (opt.niter >= 1 /\ opt.Dsteps >= 1) =>
        /\ hist.amp_writes = (IF FirstFakePending THEN 0 ELSE 1)
        /\ hist.amp_writes = 1 =>
              /\ current_scale = 0 => opt.noise_amp = 1
              /\ current_scale > 0 =>
                    /\ z_prev.kind = "rec"
                    /\ opt.noise_amp = update_noise_amplitude(z_prev, real, opt)
        /\ IsBound(noise) => hist.amp_writes = 1 /\ noise.amp = opt.noise_amp
        /\ (opt.alpha # 0 /\ IsBound(Z_opt)) =>
              hist.amp_writes = 1 /\ Z_opt.amp = opt.noise_amp

C1_Witness ==
    /\ pc = "g_update" /\ epoch = 1 /\ j = 1 /\ current_scale > 0 /\ opt.alpha # 0
    /\ hist.amp_writes = 1 /\ opt.noise_amp = 2 /\ noise.amp = 2 /\ Z_opt.amp = 2

\* C2: in every D-step the fake branch applies group_to_token to prev if and
\* only if current_scale = opt.token_insert + 1.
C2_TokenTransformIff ==
    pc = "d_update" => (hist.tok <=> (current_scale = opt.token_insert + 1))

\* C3 as stated: the fake branch is computed once per epoch, and the D-steps
\* j >= 1 reuse it.
C3_FakeBranchOncePerEpoch ==
    pc = "d_update" => hist.fake_epoch = 1

\* C3 as amended: only noise_ is drawn once per epoch and shared by the
\* D-steps; D-step j computes the fake branch (prev, noise, fake) anew, the
\* (j+1)-th computation of the epoch.
C3_FakeBranchEveryDStep ==
    /\ pc = "d_update" =>
          /\ hist.fake_epoch = j + 1
          /\ hist.d_at = <<epoch, j>>
          /\ hist.d_pair = <<noise, prev>>
          /\ fake.noise = noise /\ fake.prev = prev
          /\ j >= 1 => prev.kind \in {"rand", "replay0"} /\ prev.e = epoch /\ prev.j = j
    /\ Pos \in DPhase \cup GPhase =>
          /\ hist.draws_epoch = 1
          /\ noise_.draw = epoch
          /\ (Pos \in GPhase \cup {"d_update"} /\ IsBound(noise)) => noise.n = noise_

C3_Witness ==
    pc = "d_update" /\ j = 1 /\ epoch = 1 /\ hist.fake_epoch = 2 /\ prev.kind = "rand"

\* C4: in every epoch all Dsteps optimizerD.step() calls precede the first G
\* iteration, and no D update follows a G update of the same epoch.
C4_DBeforeG ==
    /\ Pos \in DPhase => hist.g_epoch = 0 /\ hist.d_epoch = j
    /\ Pos \in GPhase \cup EpochTail => hist.d_epoch = opt.Dsteps
    /\ hist.g_epoch > 0 => hist.d_epoch = opt.Dsteps
    /\ Pos \in GPhase =>
          optimizerG.steps = epoch * opt.Gsteps + j
    /\ IsBound(optimizerD) /\ Pos \in DPhase \cup GPhase \cup EpochTail =>
          /\ optimizerD.steps = epoch * opt.Dsteps + hist.d_epoch
          /\ Pos \in DPhase => optimizerG.steps = epoch * opt.Gsteps

C4_Witness ==
    pc = "g_update" /\ opt.Dsteps = 2 /\ j = 1 /\ epoch = 1 /\ hist.d_epoch = 2

\* C5: with Dsteps >= 1 every G iteration runs G on the (noise, prev) that
\* D-step Dsteps-1 of the same epoch computed, and neither is reassigned
\* before the epoch ends.
C5_GUsesLastDPair ==
    (opt.Dsteps >= 1 /\ Pos \in GPhase \cup EpochTail) =>
        /\ hist.d_at = <<epoch, opt.Dsteps - 1>>
        /\ <<noise, prev>> = hist.d_pair
        /\ hist.g_epoch > 0 => hist.g_in = hist.d_pair
        /\ noise.n.draw = epoch /\ noise.p = prev

C5_Witness ==
    /\ pc = "g_rec" /\ epoch = 1 /\ j = 1 /\ opt.Dsteps = 2
    /\ hist.g_in = <<noise, prev>> /\ prev.kind = "rand" /\ prev.e = 1 /\ prev.j = 1

\* C6: without a fault the call runs exactly niter epochs of Dsteps
\* optimizerD steps, Gsteps optimizerG steps and one step of each scheduler,
\* then persists z_opt and the networks once and returns
\* (z_opt, input_from_prev_scale, G); until then a step is always possible.
C6_EpochBudget ==
    /\ epoch <= opt.niter
    /\ Pos = "epoch_head" =>
          /\ optimizerD.steps = epoch * opt.Dsteps
          /\ optimizerG.steps = epoch * opt.Gsteps
          /\ schedulerD.last_epoch = epoch /\ schedulerG.last_epoch = epoch
    /\ Pos = "sched" =>
          /\ hist.d_epoch = opt.Dsteps /\ hist.g_epoch = opt.Gsteps
          /\ optimizerD.steps = (epoch + 1) * opt.Dsteps
          /\ optimizerG.steps = (epoch + 1) * opt.Gsteps
          /\ schedulerD.last_epoch = epoch /\ schedulerG.last_epoch = epoch
    /\ Pos \in {"save_z", "save_net", "ret", "done"} =>
          /\ epoch = opt.niter
          /\ optimizerD.steps = opt.niter * opt.Dsteps
          /\ optimizerG.steps = opt.niter * opt.Gsteps
          /\ schedulerD.last_epoch = opt.niter /\ schedulerG.last_epoch = opt.niter
    /\ pc = "done" =>
          /\ disk.z_opt = <<z_opt>>
          /\ Len(disk.networks) = 1
          /\ ret = <<z_opt, input_from_prev_scale, [G |-> opt.niter * opt.Gsteps]>>
    /\ pc # "done" => ret = <<>>
    /\ (Running /\ ~NameErrorDue) => ENABLED Step

C6_Witness ==
    /\ pc = "done" /\ opt.niter = 2 /\ opt.Dsteps = 2 /\ opt.Gsteps = 2
    /\ optimizerD.steps = 4 /\ optimizerG.steps = 4 /\ schedulerG.last_epoch = 2

\* C7: a fault ends the call for good (no retry), and z_opt and the networks
\* are persisted only after all niter epochs, never during or between epochs.
C7_PersistOnlyAtEnd ==
    /\ (disk.z_opt # <<>> \/ disk.networks # <<>>) =>
          /\ epoch = opt.niter /\ schedulerG.last_epoch = opt.niter
          /\ Pos \in {"save_net", "ret", "done"}
    /\ (pc = "aborted" /\ hist.fault_pc \notin {"save_net", "ret"}) =>
          disk.z_opt = <<>> /\ disk.networks = <<>>
    /\ pc = "aborted" => ~ENABLED Next

C7_Witness ==
    /\ pc = "aborted" /\ hist.fault_pc = "g_update" /\ epoch = 1 /\ opt.niter = 2
    /\ disk.z_opt = <<>> /\ disk.networks = <<>>

\* the number of milestones that are <= e
Passed(e) == Cardinality({m \in Milestones : m <= e})

\* C8: at the start of epoch e exactly e scheduler steps were taken and both
\* learning rates are the initial ones times gamma^k, k the number of
\* milestones <= e, the same for D and G and at most 2.
C8_LRSchedule ==
    /\ (pc = "epoch_head" /\ epoch < opt.niter) =>
          /\ schedulerD.last_epoch = epoch /\ schedulerG.last_epoch = epoch
          /\ optimizerD.lr_exp = Passed(epoch)
          /\ optimizerG.lr_exp = Passed(epoch)
    /\ (IsBound(optimizerD) /\ Pos # "sched_g") =>
          optimizerD.lr_exp = optimizerG.lr_exp /\ optimizerD.lr_exp <= 2

C8_Witness ==
    /\ pc = "epoch_head" /\ epoch = Milestone2 /\ epoch < opt.niter
    /\ optimizerD.lr_exp = 2 /\ optimizerG.lr_exp = 2

\* what lines 108-113 assign to z_opt
ZoptAtInit == IF current_scale = 0 THEN Pad(GenerateNoise("z_opt")) ELSE Pad(Zeros)

\* C9: z_opt is assigned before the first epoch and no later step changes
\* it, for any alpha: the z_opt persisted and returned is that tensor.
C9_ZoptFrame ==
    /\ Pos # "setup" => z_opt = ZoptAtInit
    /\ disk.z_opt # <<>> => disk.z_opt = <<ZoptAtInit>>
    /\ disk.networks # <<>> => disk.networks[1].z_opt = ZoptAtInit
    /\ pc = "done" => ret[1] = ZoptAtInit

C9_Witness ==
    /\ pc = "done" /\ opt.alpha # 0 /\ opt.niter = 2 /\ opt.Gsteps = 2
    /\ current_scale > 0 /\ ret[1] = Pad(Zeros) /\ Z_opt.n = Pad(Zeros)

\* C10 as stated: the returned seed input is written at most once; at scale 0
\* it is the unpadded zero tensor of D-step 0 of epoch 0, at finer scales the
\* argument.
C10_SeedInput ==
    /\ hist.in_writes <= 1
    /\ pc = "done" => ret[2] = (IF current_scale = 0 THEN Zeros ELSE ArgIn)

\* C10 as amended: ... at scale 0 with niter >= 1 it is the unpadded zero
\* tensor of D-step 0 of epoch 0; at finer scales, or with niter = 0, it is
\* the argument.
C10_SeedInputAmended ==
    /\ hist.in_writes = (IF current_scale = 0 /\ hist.fake_epoch + epoch > 0
                         THEN 1 ELSE 0)
    /\ input_from_prev_scale = (IF hist.in_writes = 1 THEN Zeros ELSE ArgIn)
    /\ pc = "done" =>
          ret[2] = (IF current_scale = 0 /\ opt.niter >= 1 THEN Zeros ELSE ArgIn)

C10_Witness ==
    /\ pc = "done" /\ current_scale = 0 /\ opt.niter = 2 /\ hist.in_writes = 1
    /\ ret[2] = Zeros /\ ret[2] # ArgIn

====
